---- MODULE Spec2Model ----
(***************************************************************************)
(* Model of the S7 south plugin (python/fledge/plugins/south/s7_python/    *)
(* s7_python.py): the span coalescer union_range, the type catalog         *)
(* get_type_size / get_struct_size / get_type_size_, the field decoder     *)
(* get_value / get_value_ / get_struct_values with the integer decoders,   *)
(* the flattener walk, and the plugin entry points plugin_info,            *)
(* plugin_init, plugin_poll, plugin_reconfigure and plugin_shutdown.       *)
(*                                                                         *)
(* Six specifications share the variables: SpecCoalesce (union_range),     *)
(* SpecSize (the type catalog), SpecDecode (the field decoder), SpecScalar *)
(* (the integer decoders on the bytes of a value), SpecFlatten (walk) and  *)
(* SpecPlugin (the entry points and the global client); each pins the      *)
(* variables it does not use.                                              *)
(*                                                                         *)
(* Python values are modelled as follows.                                  *)
(*   - a list is a sequence; a list [begin, end] is the pair <<begin,end>>.*)
(*   - a dict is the sequence of its (key, value) pairs in insertion order.*)
(*   - a str is the sequence of its characters (one-character strings).    *)
(*   - the outcome of a call is a record tagged by k: "ok"/"int"/... for a *)
(*     returned value, "none" for None, "raise" for a raised exception     *)
(*     (with the exception class and the source line that raises it).      *)
(***************************************************************************)
EXTENDS Integers, Sequences, FiniteSets, TLC

(***************************************************************************)
(* Bounds of the model.                                                    *)
(***************************************************************************)
\* largest byte position of an interval handed to union_range
MaxByte == 5
\* largest number of intervals handed to union_range
MaxRanges == 3

\* largest length of a buffer handed to the decoder
MaxBufLen == 4
\* largest span-relative offset handed to the decoder
MaxIndex == 1
\* largest inter-element padding ("offset" of an item)
MaxPad == 1
\* largest array dimension
MaxCount == 2
\* largest declared length of a bounded string
MaxStrLen == 2
\* a two-digit byte offset of a struct field
MaxStructByte == 10
\* the nonzero bit part used in offset keys of boolean fields
MaxKeyBit == 5

VARIABLES
    a,          \* plugin_poll: the list of [begin, end] intervals of a block
    b,          \* the value returned by union_range(a)
    item,       \* the schema item (a dict with "type", "name", ...) at hand
    size,       \* the outcome of get_type_size(item)
    struct_size,\* the outcome of get_struct_size(item["defintion"])
    bytearray_, \* the buffer read from the device for one span
    byte_index, \* the span-relative byte offset handed to get_value
    bool_index, \* the bit part of the item's offset key
    data,       \* the outcome of get_value(bytearray_, byte_index, item, bool_index)
    pc,         \* which call has been made: "input" before, "done" after
    indict,     \* walk: the decoded value handed to walk
    pre,        \* walk: the key prefix handed to walk
    separator,  \* walk: the separator handed to walk
    flat,       \* the list of the one-entry dicts walk yields
    client,     \* the module global client: None or the connected snap7 client
    handle,     \* the handle the south service holds (from plugin_init / plugin_reconfigure)
    result,     \* what the last call of a plugin entry point returned or raised
    trace       \* the sizing, device and decoding calls of the last entry point call, in order

vars == <<a, b, item, size, struct_size, bytearray_, byte_index, bool_index, data, pc,
          indict, pre, separator, flat, client, handle, result, trace>>

\* the value of a variable no call has set yet
NotCalled == [k |-> "notcalled"]
\* the item variable of a specification that sizes and decodes nothing
NoItem == [type |-> [base |-> "", dims |-> <<>>]]

\* the variables of walk, and their value where nothing is flattened
varsWalk == <<indict, pre, separator, flat>>
NoWalk ==
    /\ indict = NotCalled /\ pre = <<>> /\ separator = <<>> /\ flat = NotCalled

\* the variables of the plugin entry points, and their value where no entry
\* point is called
varsPlugin == <<client, handle, result, trace>>
NoPlugin ==
    /\ client = NotCalled /\ handle = NotCalled /\ result = NotCalled /\ trace = <<>>

\* the variables the coalescer, the catalog and the decoder leave alone
varsRest == <<varsWalk, varsPlugin>>
NoRest == NoWalk /\ NoPlugin

(***************************************************************************)
(* Generic helpers.                                                        *)
(***************************************************************************)
Max(x, y) == IF x >= y THEN x ELSE y
Min(x, y) == IF x <= y THEN x ELSE y

\* the sequences over S of length 0..n
SeqUpTo(S, n) == UNION {[1..m -> S] : m \in 0..n}

(***************************************************************************)
(* Span coalescer: union_range (s7_python.py 418-426).                     *)
(***************************************************************************)
\* Python's order on two-element lists of ints: lexicographic.
ListLeq(p, q) == p[1] < q[1] \/ (p[1] = q[1] /\ p[2] <= q[2])

RECURSIVE InsertSorted(_, _)
InsertSorted(s, x) ==
    IF s = <<>> THEN <<x>>
    ELSE IF ListLeq(x, Head(s)) THEN <<x>> \o s
    ELSE <<Head(s)>> \o InsertSorted(Tail(s), x)

\* sorted(a) for a list of [begin, end] lists
RECURSIVE sorted(_)
sorted(s) == IF s = <<>> THEN <<>> ELSE InsertSorted(sorted(Tail(s)), Head(s))

\* a variant of the merge test that joins overlapping intervals only
MergeTestOff(acc, begin) == acc # <<>> /\ acc[Len(acc)][2] >= begin

\* the test of line 421: b and b[-1][1] >= begin - 1
MergeTest(acc, begin) == acc # <<>> /\ acc[Len(acc)][2] >= begin - 1

\* a variant of the loop body that takes the end of the merged interval
\* from the next interval alone
UnionStepNoMax(acc, iv) ==
    IF MergeTest(acc, iv[1])
    THEN [acc EXCEPT ![Len(acc)] = <<acc[Len(acc)][1], iv[2]>>]
    ELSE Append(acc, <<iv[1], iv[2]>>)

\* one iteration of the for loop of lines 420-424
UnionStep(acc, iv) ==
    IF MergeTest(acc, iv[1])
    THEN [acc EXCEPT ![Len(acc)] = <<acc[Len(acc)][1], Max(acc[Len(acc)][2], iv[2])>>]
    ELSE Append(acc, <<iv[1], iv[2]>>)

RECURSIVE UnionFold(_, _)
UnionFold(acc, rest) ==
    IF rest = <<>> THEN acc ELSE UnionFold(UnionStep(acc, Head(rest)), Tail(rest))

union_range(s) == UnionFold(<<>>, sorted(s))

(***************************************************************************)
(* Inputs of the coalescer: inclusive intervals with start <= end.         *)
(***************************************************************************)
Intervals == {<<s, e>> : s \in 0..MaxByte, e \in 0..MaxByte} \ {<<s, e>> \in (0..MaxByte) \X (0..MaxByte) : s > e}

(***************************************************************************)
(* Specification SpecCoalesce: plugin_poll lines 288-296, the interval     *)
(* list a is built one append at a time and then coalesced.                *)
(***************************************************************************)
\* the variables of the decoder, and their value where nothing is decoded
varsDecode == <<bytearray_, byte_index, bool_index, data>>
NoDecode ==
    /\ bytearray_ = <<>> /\ byte_index = 0 /\ bool_index = 0
    /\ data = NotCalled

InitCoalesce ==
    /\ a = <<>> /\ b = <<>> /\ pc = "input"
    /\ item = NoItem /\ size = NotCalled /\ struct_size = NotCalled
    /\ NoDecode
    /\ NoRest

varsField == <<item, size, struct_size, varsDecode>>

\* line 291: a.append([byte_index, byte_index + get_type_size(item) - 1])
AppendInterval ==
    /\ pc = "input"
    /\ Len(a) < MaxRanges
    /\ \E iv \in Intervals : a' = Append(a, iv)
    /\ UNCHANGED <<b, pc, varsField, varsRest>>

\* line 296: union_range(a)
CallUnionRange ==
    /\ pc = "input"
    /\ b' = union_range(a)
    /\ pc' = "done"
    /\ UNCHANGED <<a, varsField, varsRest>>

NextCoalesce == AppendInterval \/ CallUnionRange

SpecCoalesce == InitCoalesce /\ [][NextCoalesce]_vars

(***************************************************************************)
(* Claims about union_range.                                               *)
(***************************************************************************)
\* the byte positions covered by a list of inclusive intervals
Covered(s) == UNION {s[i][1]..s[i][2] : i \in DOMAIN s}

\* C1: the output of union_range is sorted by start, pairwise disjoint, and
\* consecutive outputs [s1,e1],[s2,e2] satisfy s2 > e1 + 1; [[0,3],[4,7]]
\* (here scaled to the model's byte range) merges and [[0,1],[4,5]] does not.
C1_SortedDisjointGapped ==
    pc = "done" =>
        /\ \A i \in DOMAIN b : b[i][1] <= b[i][2]
        /\ \A i \in 1..(Len(b) - 1) : b[i + 1][1] > b[i][2] + 1
        /\ \A i, j \in DOMAIN b : i < j => b[i][2] < b[j][1]
        /\ (a = <<<<0, 1>>, <<2, 3>>>> => b = <<<<0, 3>>>>)
        /\ (a = <<<<0, 1>>, <<4, 5>>>> => b = a)

C1_Witness ==
    /\ pc = "done"
    /\ a = <<<<3, 5>>, <<0, 0>>, <<1, 2>>>>
    /\ b = <<<<0, 5>>>>

\* C2: the output of union_range covers exactly the byte positions covered
\* by its input intervals.
C2_CoverageEqual == pc = "done" => Covered(b) = Covered(a)

C2_Witness ==
    /\ pc = "done"
    /\ a = <<<<4, 5>>, <<0, 2>>, <<1, 1>>>>
    /\ b = <<<<0, 2>>, <<4, 5>>>>
(***************************************************************************)
(* Python text: str(n), int(s), s.split('.'), and the order of str.        *)
(***************************************************************************)
\* the characters of offset keys, in code point order ('.' < '0' < ... < '9')
CharOrder == <<".", "0", "1", "2", "3", "4", "5", "6", "7", "8", "9">>
Ord(c) == CHOOSE i \in DOMAIN CharOrder : CharOrder[i] = c
DigitChar(d) == CharOrder[d + 2]
DigitValue(c) == Ord(c) - 2

\* str(n) for n >= 0
RECURSIVE StrOfNat(_)
StrOfNat(n) ==
    IF n < 10 THEN <<DigitChar(n)>> ELSE StrOfNat(n \div 10) \o <<DigitChar(n % 10)>>

\* int(s) for a string of decimal digits
RECURSIVE IntOfStr(_)
IntOfStr(s) ==
    IF Len(s) = 1 THEN DigitValue(s[1])
    ELSE 10 * IntOfStr(SubSeq(s, 1, Len(s) - 1)) + DigitValue(s[Len(s)])

\* s.split('.')
RECURSIVE SplitDot(_)
SplitDot(s) ==
    IF \A i \in DOMAIN s : s[i] # "." THEN <<s>>
    ELSE LET i == CHOOSE j \in DOMAIN s : s[j] = "." /\ \A h \in 1..(j - 1) : s[h] # "."
         IN <<SubSeq(s, 1, i - 1)>> \o SplitDot(SubSeq(s, i + 1, Len(s)))

\* s < t for two str: lexicographic by code point, a proper prefix is smaller
RECURSIVE StrLess(_, _)
StrLess(s, t) ==
    IF t = <<>> THEN FALSE
    ELSE IF s = <<>> THEN TRUE
    ELSE IF s[1] # t[1] THEN Ord(s[1]) < Ord(t[1])
    ELSE StrLess(Tail(s), Tail(t))

\* the offset key "<byte>.<bit>" of the schema
OffsetKey(byte, bit) == StrOfNat(byte) \o <<".">> \o StrOfNat(bit)

(***************************************************************************)
(* Dicts as sequences of [key, item] pairs in insertion order.             *)
(***************************************************************************)
DictKeys(d) == [i \in DOMAIN d |-> d[i].key]
DictGet(d, key) == d[CHOOSE i \in DOMAIN d : d[i].key = key].item

(***************************************************************************)
(* Type names.  item['type'].strip().lower() is modelled by what           *)
(* type_name.split('[') makes of it: base is type_split[0], dims holds the *)
(* bracketed dimensions (len(type_split) = 1 + Len(dims)); a dimension is  *)
(* <<n>> for "n" and <<lo, hi>> for "lo..hi".                              *)
(***************************************************************************)
TypeName(base) == [base |-> base, dims |-> <<>>]
ArrayName(base, n) == [base |-> base, dims |-> <<<<n>>>>]
Array2Name(base, n, m) == [base |-> base, dims |-> <<<<n>>, <<m>>>>]

\* the dict type_size of lines 815, 828, 575 and 911 (the same four times)
type_size ==
    [bool |-> 1, byte |-> 1, char |-> 1, word |-> 2, dword |-> 4, usint |-> 1,
     uint |-> 2, udint |-> 4, ulint |-> 8, sint |-> 1, int |-> 2, dint |-> 4,
     lint |-> 8, real |-> 4, lreal |-> 8, string |-> 256, time |-> 4,
     ltime |-> 8, date_and_time |-> 8]

\* type_name in type_size.keys()
InTypeSize(type_name) == type_name.dims = <<>> /\ type_name.base \in DOMAIN type_size
\* type_split[0] in type_size.keys()
BaseInTypeSize(type_name) == type_name.base \in DOMAIN type_size

\* outcomes of the sizing functions
Ok(n) == [k |-> "ok", v |-> n]
Raise(exc, line) == [k |-> "raise", exc |-> exc, line |-> line]

(***************************************************************************)
(* Type catalog (s7_python.py 779-883).                                    *)
(***************************************************************************)
\* get_array_size, for the dimensions its two regular expressions match
get_array_size(dimension) ==
    IF Len(dimension) = 2 THEN dimension[2] - dimension[1] + 1 ELSE dimension[1]

\* convert_key: int(float(key)) of a key "<byte>.<bit>" or of a digit
convert_key(key) == IntOfStr(SplitDot(key)[1])

get_type_size_(type_name) ==
    IF InTypeSize(type_name) THEN Ok(type_size[type_name.base])
    ELSE Raise("ValueError", 824)

\* sorted(defintion, key=lambda t: convert_key(t[0])): the keys of the dict,
\* ordered by the number their first character converts to (stable)
RECURSIVE InsertByFirstChar(_, _)
InsertByFirstChar(s, x) ==
    IF s = <<>> THEN <<x>>
    ELSE IF convert_key(<<x[1]>>) < convert_key(<<Head(s)[1]>>) THEN <<x>> \o s
    ELSE <<Head(s)>> \o InsertByFirstChar(Tail(s), x)

RECURSIVE SortedByFirstChar(_)
SortedByFirstChar(keys) ==
    IF keys = <<>> THEN <<>>
    ELSE InsertByFirstChar(SortedByFirstChar(SubSeq(keys, 1, Len(keys) - 1)), keys[Len(keys)])

\* min(s) and max(s) of a non-empty list of str
StrMin(s) == s[CHOOSE i \in DOMAIN s : \A j \in DOMAIN s : ~StrLess(s[j], s[i])]
StrMax(s) == s[CHOOSE i \in DOMAIN s : \A j \in DOMAIN s : ~StrLess(s[i], s[j])]

\* a variant of the base-field test that looks at the largest key
BaseCheckMax(s) == convert_key(StrMax(s)) # 0

\* the test of line 796
BaseCheck(s) == convert_key(StrMin(s)) # 0

get_struct_size(defintion) ==
    LET s == SortedByFirstChar(DictKeys(defintion)) IN
    IF s = <<>> THEN Raise("ValueError", 796)
    ELSE IF BaseCheck(s) THEN Raise("ValueError", 799)
    ELSE LET last == get_type_size_(DictGet(defintion, StrMax(s))["type"]) IN
         IF last.k = "ok" THEN Ok(convert_key(StrMax(s)) + last.v)
         ELSE Raise("ValueError", 804)

\* lines 843-846: the item's "offset", 0 when absent
ItemOffset(it) == IF "offset" \in DOMAIN it THEN it["offset"] ELSE 0

get_type_size(it) ==
    LET type_name == it["type"]
        offset == ItemOffset(it)
    IN
    IF InTypeSize(type_name) THEN Ok(type_size[type_name.base])
    ELSE IF type_name = TypeName("struct") THEN
        IF "defintion" \in DOMAIN it THEN get_struct_size(it["defintion"])
        ELSE Raise("ValueError", 841)
    ELSE IF Len(type_name.dims) = 1 /\ type_name.base = "string" THEN
        Ok(get_array_size(type_name.dims[1]) + 2)
    ELSE IF Len(type_name.dims) = 1 /\ type_name.base = "struct" THEN
        IF "defintion" \in DOMAIN it THEN
            LET one == get_struct_size(it["defintion"]) IN
            IF one.k = "ok" THEN Ok((one.v + offset) * get_array_size(type_name.dims[1]))
            ELSE one
        ELSE Raise("ValueError", 863)
    ELSE IF Len(type_name.dims) = 1 /\ type_name.base = "bool" THEN
        \* math.ceil(array_size / 8)
        Ok((get_array_size(type_name.dims[1]) + 7) \div 8)
    ELSE IF Len(type_name.dims) = 1 /\ BaseInTypeSize(type_name) THEN
        Ok((type_size[type_name.base] + offset) * get_array_size(type_name.dims[1]))
    ELSE IF type_name.base = "string" /\ Len(type_name.dims) = 2 THEN
        Ok(get_array_size(type_name.dims[2]) * (get_array_size(type_name.dims[1]) + 2))
    ELSE Raise("ValueError", 883)
\* get_byte_and_bool_index (886-894): the int parts of str(index).split('.')
get_byte_and_bool_index(index) ==
    LET index_split == SplitDot(index) IN
    <<IntOfStr(index_split[1]),
      IF Len(index_split) = 2 THEN IntOfStr(index_split[2]) ELSE 0>>

(***************************************************************************)
(* Inputs of the type catalog: items as the schema's JSON gives them.      *)
(***************************************************************************)
\* the byte offsets of struct fields: one- and two-digit numbers
StructBytes == {0, 2, MaxStructByte}
FieldName(byte) == <<"f">> \o StrOfNat(byte)

\* a definition that sizes to 2
BaseDefinition ==
    <<[key |-> OffsetKey(0, 0), item |-> [name |-> "inner", type |-> TypeName("int")]]>>

\* what a field of a struct definition may be, apart from its name
FieldShapes ==
    {[type |-> TypeName(t)] : t \in {"int", "real", "bool", "date"}}
    \cup {[type |-> ArrayName("int", MaxCount)], [type |-> ArrayName("string", MaxStrLen)],
          [type |-> ArrayName("bool", MaxCount)],
          [type |-> TypeName("struct"), defintion |-> BaseDefinition]}

WithName(shape, name) == [f \in DOMAIN shape \cup {"name"} |-> IF f = "name" THEN name ELSE shape[f]]

\* the (key, item) pairs a definition may hold at a byte offset; only a
\* boolean has a nonzero bit part
FieldsAt(byte) ==
    {[key |-> OffsetKey(byte, 0), item |-> WithName(sh, FieldName(byte))] : sh \in FieldShapes}
    \cup {[key |-> OffsetKey(byte, MaxKeyBit),
           item |-> [name |-> FieldName(byte), type |-> TypeName("bool")]]}

Pads == 0..MaxPad
Counts == 1..MaxCount

\* the items sized before any field is added to their definition
SizeItems ==
    {[name |-> "v", type |-> TypeName(t)] : t \in {"int", "real", "bool", "lword", "string", "date"}}
    \cup {[name |-> "v", type |-> TypeName("struct")], [name |-> "v", type |-> ArrayName("struct", MaxCount)]}
    \cup {[name |-> "v", type |-> TypeName("struct"), defintion |-> <<>>]}
    \cup {[name |-> "v", type |-> ArrayName("struct", n), defintion |-> <<>>] : n \in Counts}
    \cup {[name |-> "v", type |-> ArrayName("struct", n), defintion |-> <<>>, offset |-> p] :
            n \in Counts, p \in Pads}
    \cup {[name |-> "v", type |-> ArrayName(t, n)] : t \in {"int", "real", "bool"}, n \in Counts}
    \cup {[name |-> "v", type |-> ArrayName(t, n), offset |-> p] :
            t \in {"int", "real", "bool"}, n \in Counts, p \in Pads}
    \cup {[name |-> "v", type |-> [base |-> "int", dims |-> <<<<0, n - 1>>>>]] : n \in Counts}
    \cup {[name |-> "v", type |-> ArrayName("string", n)] : n \in 1..MaxStrLen}
    \cup {[name |-> "v", type |-> Array2Name("string", l, n)] : l \in 1..MaxStrLen, n \in Counts}
    \cup {[name |-> "v", type |-> Array2Name("string", l, n), offset |-> p] :
            l \in 1..MaxStrLen, n \in Counts, p \in Pads}

(***************************************************************************)
(* Specification SpecSize: an item is drawn, fields are added to its       *)
(* definition in any order (the insertion order of the dict), and the item *)
(* or its definition is sized.                                             *)
(***************************************************************************)
InitSize ==
    /\ item \in SizeItems
    /\ size = NotCalled /\ struct_size = NotCalled
    /\ pc = "input"
    /\ a = <<>> /\ b = <<>>
    /\ NoDecode
    /\ NoRest

UsedBytes(defintion) ==
    {get_byte_and_bool_index(defintion[i].key)[1] : i \in DOMAIN defintion}

\* the schema gains a field: one more key of item["defintion"]
AddField ==
    /\ pc = "input"
    /\ "defintion" \in DOMAIN item
    /\ \E byte \in StructBytes \ UsedBytes(item["defintion"]) :
         \E f \in FieldsAt(byte) :
            item' = [item EXCEPT !["defintion"] = Append(@, f)]
    /\ UNCHANGED <<a, b, size, struct_size, pc, varsDecode, varsRest>>

\* plugin_poll line 292: get_type_size(item)
CallGetTypeSize ==
    /\ pc = "input"
    /\ size' = get_type_size(item)
    /\ pc' = "sized"
    /\ UNCHANGED <<a, b, item, struct_size, varsDecode, varsRest>>

\* lines 618, 838, 861: get_struct_size(item['defintion'])
CallGetStructSize ==
    /\ pc = "input"
    /\ "defintion" \in DOMAIN item
    /\ struct_size' = get_struct_size(item["defintion"])
    /\ pc' = "struct_sized"
    /\ UNCHANGED <<a, b, item, size, varsDecode, varsRest>>

NextSize == AddField \/ CallGetTypeSize \/ CallGetStructSize

SpecSize == InitSize /\ [][NextSize]_vars
(***************************************************************************)
(* Claims about the type catalog.                                          *)
(***************************************************************************)
ByteOf(key) == get_byte_and_bool_index(key)[1]
HasBaseField(defintion) == \E i \in DOMAIN defintion : ByteOf(defintion[i].key) = 0
AllScalar(defintion) == \A i \in DOMAIN defintion : InTypeSize(defintion[i].item["type"])
\* the field with the numerically largest byte offset
NumericLast(defintion) ==
    defintion[CHOOSE i \in DOMAIN defintion :
                \A j \in DOMAIN defintion : ByteOf(defintion[j].key) <= ByteOf(defintion[i].key)]

\* C3: a struct definition with a field at byte 0 and only scalar fields
\* sizes to m.byte + size_of(m.type), m being the field with the numerically
\* largest byte offset.
C3_NumericLargestField ==
    (pc = "struct_sized" /\ HasBaseField(item["defintion"]) /\ AllScalar(item["defintion"])) =>
        LET m == NumericLast(item["defintion"]) IN
        struct_size = Ok(ByteOf(m.key) + type_size[m.item["type"].base])

\* a field whose type is composite and that the catalog can size on its own
Composite(it) == ~InTypeSize(it["type"]) /\ get_type_size(it).k = "ok"

\* C4: when the field at the largest offset is an array, a String[n], an
\* array of bits or a nested struct, the struct still sizes, to
\* m.byte + size_of(m.type).
C4_CompositeLastField ==
    (pc = "struct_sized" /\ HasBaseField(item["defintion"])
        /\ Composite(NumericLast(item["defintion"]).item)) =>
        LET m == NumericLast(item["defintion"]) IN
        struct_size = Ok(ByteOf(m.key) + get_type_size(m.item).v)

\* the base-field check of lines 796-799 failed
MissingBaseField == {Raise("ValueError", 796), Raise("ValueError", 799)}

ExampleDefinition ==
    <<[key |-> OffsetKey(0, 0), item |-> [name |-> FieldName(0), type |-> TypeName("int")]],
      [key |-> OffsetKey(2, 0), item |-> [name |-> FieldName(2), type |-> TypeName("real")]]>>

\* C5: sizing a definition fails at the base-field check exactly when it has
\* no field at byte offset 0, and {"0.0": int, "2.0": real} sizes to 6.
C5_BaseFieldRequired ==
    pc = "struct_sized" =>
        /\ (struct_size \in MissingBaseField) = ~HasBaseField(item["defintion"])
        /\ (item["defintion"] = ExampleDefinition => struct_size = Ok(6))

C5_Witness ==
    /\ pc = "struct_sized"
    /\ DictKeys(item["defintion"]) = <<OffsetKey(MaxStructByte, 0), OffsetKey(2, 0)>>
    /\ struct_size = Raise("ValueError", 799)

\* the arrays of the schema: scalar[n], struct[n] and String[len][n]
IsArray(it) ==
    \/ Len(it["type"].dims) = 1 /\ it["type"].base \in DOMAIN type_size \ {"string", "bool"}
    \/ Len(it["type"].dims) = 1 /\ it["type"].base = "struct" /\ "defintion" \in DOMAIN it
    \/ Len(it["type"].dims) = 2 /\ it["type"].base = "string"
ArrayCount(it) == get_array_size(it["type"].dims[Len(it["type"].dims)])
\* the outcome of sizing one element of an array
ElementSize(it) ==
    IF it["type"].base = "struct" THEN get_struct_size(it["defintion"])
    ELSE IF it["type"].base = "string" THEN Ok(get_array_size(it["type"].dims[1]) + 2)
    ELSE Ok(type_size[it["type"].base])

\* C6: an array sizes to (size_of(element) + pad) * count, whatever the
\* element is.
C6_ArraySizeUniform ==
    (pc = "sized" /\ IsArray(item) /\ ElementSize(item).k = "ok") =>
        size = Ok((ElementSize(item).v + ItemOffset(item)) * ArrayCount(item))
(***************************************************************************)
(* Field decoder (s7_python.py 463-478, 538-552, 571-776, 897-950).        *)
(* A buffer is the sequence of its bytes; Python index i is element i + 1. *)
(***************************************************************************)
\* decoded values
PyInt(n) == [k |-> "int", v |-> n]
PyBool(t) == [k |-> "bool", v |-> t]
PyStr(codes) == [k |-> "str", v |-> codes]
PyList(elems) == [k |-> "list", v |-> elems]
PyDict(pairs) == [k |-> "dict", v |-> pairs]
NoneValue == [k |-> "none"]

\* the argument bool_index=None of get_value_
NoBoolIndex == -1
\* the default max_size of get_value_ (line 680)
DefaultMaxSize == 254

\* bytearray_[i:j]
Slice(buf, i, j) == SubSeq(buf, i + 1, Min(j, Len(buf)))

\* get_uint (463-478)
get_uint(buf, i) ==
    LET d == Slice(buf, i, i + 2) IN
    IF Len(d) < 2 THEN Raise("IndexError", 474)
    ELSE PyInt((d[1] % 256) * 256 + (d[2] % 256))

\* get_byte_ (538-552)
get_byte_(buf, i) ==
    LET d == Slice(buf, i, i + 1) IN
    IF Len(d) < 1 THEN Raise("IndexError", 549)
    ELSE PyInt(d[1] % 256)

\* snap7.util.get_bool: byte & (1 << bool_index) == (1 << bool_index)
get_bool(buf, i, bit) ==
    IF i >= Len(buf) THEN Raise("IndexError", 701)
    ELSE PyBool((buf[i + 1] \div (2 ^ bit)) % 2 = 1)

\* snap7.util.get_string: the actual length is the second header byte, cut
\* to max_size; the payload follows the two header bytes
get_string(buf, i, max_size) ==
    IF i + 1 >= Len(buf) THEN Raise("IndexError", 704)
    ELSE PyStr(Slice(buf, i + 2, i + 2 + Min(buf[i + 2], max_size)))

\* a variant that takes the first byte as the least significant
RECURSIVE LittleEndian(_)
LittleEndian(d) ==
    IF d = <<>> THEN 0
    ELSE LittleEndian(Tail(d)) * 256 + Head(d)

\* struct.unpack of an unsigned big-endian format ('>L', '>Q') on the
\* packed bytes d
RECURSIVE BigEndian(_)
BigEndian(d) ==
    IF d = <<>> THEN 0
    ELSE BigEndian(SubSeq(d, 1, Len(d) - 1)) * 256 + d[Len(d)]

\* struct.unpack('>q', ...): the 64-bit two's complement value of d, which
\* for a set sign bit is -(1 + the value of the complemented bytes)
UnpackSigned(d) ==
    IF d[1] >= 128
    THEN -(1 + BigEndian([j \in DOMAIN d |-> 255 - d[j]]))
    ELSE BigEndian(d)

\* get_lword (446-460): the slice is 4 bytes long at most, and
\* struct.pack('8B', *data) takes exactly 8 arguments
get_lword(buf, i) ==
    LET d == Slice(buf, i, i + 4) IN
    IF Len(d) # 8 THEN Raise("struct.error", 459)
    ELSE PyInt(BigEndian(d))

\* get_udint (481-497)
get_udint(buf, i) ==
    LET d == Slice(buf, i, i + 4) IN
    IF Len(d) # 4 THEN Raise("struct.error", 496)
    ELSE PyInt(BigEndian(d))

\* get_ulint (500-516)
get_ulint(buf, i) ==
    LET d == Slice(buf, i, i + 8) IN
    IF Len(d) # 8 THEN Raise("struct.error", 515)
    ELSE PyInt(BigEndian(d))

\* get_lint (519-533)
get_lint(buf, i) ==
    LET d == Slice(buf, i, i + 8) IN
    IF Len(d) # 8 THEN Raise("struct.error", 532)
    ELSE PyInt(UnpackSigned(d))

\* get_value_ (680-776) for the type names of the model's inputs; type_ is
\* compared as a whole name, so "string[2]" is not 'string'.  'date' and
\* 'time_of_day' (lines 766-773) and every name without a branch (lines
\* 775-776) return None.
get_value_(buf, i, type_, bit, max_size) ==
    IF type_ = TypeName("bool") THEN
        IF bit = NoBoolIndex THEN NoneValue ELSE get_bool(buf, i, bit)
    ELSE IF type_ = TypeName("string") THEN get_string(buf, i, max_size)
    ELSE IF type_ = TypeName("lword") THEN get_lword(buf, i)
    ELSE IF type_ = TypeName("lint") THEN get_lint(buf, i)
    ELSE IF type_ = TypeName("uint") THEN get_uint(buf, i)
    ELSE IF type_ = TypeName("udint") THEN get_udint(buf, i)
    ELSE IF type_ = TypeName("ulint") THEN get_ulint(buf, i)
    ELSE IF type_ = TypeName("byte") THEN get_byte_(buf, i)
    ELSE IF type_ = TypeName("ltime") THEN get_lint(buf, i)
    ELSE IF type_ = TypeName("date") THEN NoneValue
    ELSE IF type_ = TypeName("time_of_day") THEN NoneValue
    ELSE NoneValue

\* a list built by a for loop of appends: the first element that raises
\* ends the loop and the call
Collect(outs) ==
    IF \E j \in DOMAIN outs : outs[j].k = "raise"
    THEN outs[CHOOSE j \in DOMAIN outs :
                outs[j].k = "raise" /\ \A h \in 1..(j - 1) : outs[h].k # "raise"]
    ELSE PyList(outs)

\* o[name] = val
DictSet(o, name, val) ==
    IF \E j \in DOMAIN o : o[j].name = name
    THEN [j \in DOMAIN o |-> IF o[j].name = name THEN [name |-> name, val |-> val] ELSE o[j]]
    ELSE Append(o, [name |-> name, val |-> val])

\* the stride of the array loop of lines 939-941
StructArrayStep(it) == type_size[it["type"].base]

\* the byte at which the bit loop of lines 928-933 starts
StructBitsBase(i, struct_byte_index) == i

\* the type name handed to get_value_ at line 922
StructStringType(type_name) == type_name

\* the body of the loop of get_struct_values (901-948) for one field: the
\* value stored under the field's name, Skipped when the field is passed
\* over (the two "pass" branches)
Skipped == [k |-> "skipped"]

StructField(buf, i, index, it) ==
    LET struct_byte_index == get_byte_and_bool_index(index)[1]
        bit == get_byte_and_bool_index(index)[2]
        type_name == it["type"]
    IN
    IF InTypeSize(type_name) THEN
        get_value_(buf, i + struct_byte_index, type_name, bit, DefaultMaxSize)
    ELSE IF Len(type_name.dims) = 1 THEN
        LET array_size == get_array_size(type_name.dims[1]) IN
        IF type_name.base = "string" THEN
            get_value_(buf, i + struct_byte_index, StructStringType(type_name), bit, array_size)
        ELSE IF type_name.base = "bool" THEN
            Collect([n \in 1..array_size |->
                get_value_(buf, StructBitsBase(i, struct_byte_index) + ((n - 1) \div 8),
                           TypeName("bool"), (n - 1) % 8, DefaultMaxSize)])
        ELSE IF BaseInTypeSize(type_name) THEN
            Collect([n \in 1..array_size |->
                get_value_(buf, i + struct_byte_index + (n - 1) * StructArrayStep(it),
                           TypeName(type_name.base), NoBoolIndex, DefaultMaxSize)])
        ELSE Skipped
    ELSE Skipped

RECURSIVE StructLoop(_, _, _, _)
StructLoop(buf, i, rest, o) ==
    IF rest = <<>> THEN PyDict(o)
    ELSE LET val == StructField(buf, i, Head(rest).key, Head(rest).item) IN
         IF val.k = "raise" THEN val
         ELSE IF val = Skipped THEN StructLoop(buf, i, Tail(rest), o)
         ELSE StructLoop(buf, i, Tail(rest), DictSet(o, Head(rest).item["name"], val))

get_struct_values(buf, i, defintion) == StructLoop(buf, i, defintion, <<>>)

\* the max_size with which a top-level String[n] is decoded (line 602: the
\* fourth positional argument of get_value_ is bool_index)
StringMaxSize(string_size) == DefaultMaxSize

get_value(buf, i, it, bit) ==
    LET type_name == it["type"]
        offset == ItemOffset(it)
    IN
    IF InTypeSize(type_name) THEN get_value_(buf, i, type_name, bit, DefaultMaxSize)
    ELSE IF type_name = TypeName("struct") THEN
        IF "defintion" \in DOMAIN it THEN get_struct_values(buf, i, it["defintion"])
        ELSE Raise("ValueError", 587)
    ELSE IF Len(type_name.dims) = 1 /\ type_name.base = "string" THEN
        get_value_(buf, i, TypeName("string"), get_array_size(type_name.dims[1]) + 2,
                   StringMaxSize(get_array_size(type_name.dims[1]) + 2))
    ELSE IF Len(type_name.dims) = 1 /\ type_name.base = "bool" THEN
        Collect([n \in 1..get_array_size(type_name.dims[1]) |->
            get_value_(buf, i + ((n - 1) \div 8), TypeName("bool"), (n - 1) % 8, DefaultMaxSize)])
    ELSE IF Len(type_name.dims) = 1 /\ type_name.base = "struct" THEN
        IF "defintion" \in DOMAIN it THEN
            LET one == get_struct_size(it["defintion"]) IN
            IF one.k = "raise" THEN one
            ELSE Collect([n \in 1..get_array_size(type_name.dims[1]) |->
                    get_struct_values(buf, i + (n - 1) * (one.v + offset), it["defintion"])])
        ELSE Raise("ValueError", 630)
    ELSE IF Len(type_name.dims) = 1 /\ BaseInTypeSize(type_name) THEN
        Collect([n \in 1..get_array_size(type_name.dims[1]) |->
            get_value_(buf, i + (n - 1) * (type_size[type_name.base] + offset),
                       TypeName(type_name.base), NoBoolIndex, DefaultMaxSize)])
    ELSE IF type_name.base = "string" /\ Len(type_name.dims) = 2 THEN
        LET string_size == get_array_size(type_name.dims[1]) + 2 IN
        Collect([n \in 1..get_array_size(type_name.dims[2]) |->
            get_value_(buf, i + (n - 1) * (string_size + offset), TypeName("string"),
                       string_size - 2, DefaultMaxSize)])
    ELSE Raise("ValueError", 677)
(***************************************************************************)
(* Inputs of the decoder.                                                  *)
(***************************************************************************)
\* the byte values of the buffers
ByteValues == {0, 1, 2}
\* the bit parts of the offset keys of boolean fields
DecodeBits == {0, 1}
\* the byte offsets of the fields of a decoded struct
DecodeBytes == 0..MaxIndex

InnerDefinition ==
    <<[key |-> OffsetKey(0, 0), item |-> [name |-> "inner", type |-> TypeName("byte")]]>>

DecodeFieldShapes ==
    {[type |-> TypeName(t)] : t \in {"byte", "uint", "date", "nosuch"}}
    \cup {[type |-> ArrayName("string", 1)], [type |-> ArrayName("bool", MaxCount)],
          [type |-> ArrayName("byte", MaxCount)],
          [type |-> ArrayName("byte", MaxCount), offset |-> MaxPad],
          [type |-> TypeName("struct"), defintion |-> InnerDefinition]}

DecodeFieldsAt(byte) ==
    {[key |-> OffsetKey(byte, 0), item |-> WithName(sh, FieldName(byte))] : sh \in DecodeFieldShapes}
    \cup {[key |-> OffsetKey(byte, bit),
           item |-> [name |-> FieldName(byte), type |-> TypeName("bool")]] : bit \in DecodeBits}
    \cup {[key |-> OffsetKey(byte, 1),
           item |-> [name |-> FieldName(byte), type |-> TypeName("byte")]]}

\* the items decoded, before any field is added to their definition
DecodeItems ==
    {[name |-> "v", type |-> TypeName(t)] :
        t \in {"byte", "uint", "bool", "date", "time_of_day", "nosuch"}}
    \cup {[name |-> "v", type |-> TypeName("struct"), defintion |-> <<>>],
          [name |-> "v", type |-> ArrayName("struct", MaxCount), defintion |-> <<>>],
          [name |-> "v", type |-> ArrayName("struct", MaxCount), defintion |-> <<>>,
           offset |-> MaxPad]}
    \cup {[name |-> "v", type |-> ArrayName(t, n)] : t \in {"byte", "uint"}, n \in Counts}
    \cup {[name |-> "v", type |-> ArrayName(t, n), offset |-> p] :
            t \in {"byte", "uint"}, n \in Counts, p \in Pads}
    \cup {[name |-> "v", type |-> ArrayName("bool", n)] : n \in Counts}
    \cup {[name |-> "v", type |-> ArrayName("string", n)] : n \in 1..MaxStrLen}
    \cup {[name |-> "v", type |-> Array2Name("string", 1, n)] : n \in Counts}
    \cup {[name |-> "v", type |-> Array2Name("string", 1, n), offset |-> MaxPad] : n \in Counts}

(***************************************************************************)
(* Specification SpecDecode: plugin_poll lines 301-312.  A buffer, a       *)
(* span-relative offset and an item are drawn, fields are added to the     *)
(* item's definition, and the item is decoded.                             *)
(***************************************************************************)
\* the types of the top-level items drawn with a nonzero bit part in their
\* offset key (the key is parsed by get_byte_and_bool_index whatever the type)
BitTypes == {TypeName("bool"), TypeName("byte"), TypeName("uint")}

InitDecode ==
    /\ item \in DecodeItems
    /\ bytearray_ \in SeqUpTo(ByteValues, MaxBufLen)
    /\ byte_index \in 0..MaxIndex
    /\ bool_index \in DecodeBits
    /\ (item["type"] \notin BitTypes => bool_index = 0)
    /\ data = NotCalled
    /\ pc = "input"
    /\ a = <<>> /\ b = <<>> /\ size = NotCalled /\ struct_size = NotCalled
    /\ NoRest

\* the schema gains a field, at a byte offset past those it has
AddDecodeField ==
    /\ pc = "input"
    /\ "defintion" \in DOMAIN item
    /\ \E byte \in DecodeBytes :
         /\ \A used \in UsedBytes(item["defintion"]) : used < byte
         /\ \E f \in DecodeFieldsAt(byte) :
                item' = [item EXCEPT !["defintion"] = Append(@, f)]
    /\ UNCHANGED <<a, b, size, struct_size, bytearray_, byte_index, bool_index, data, pc, varsRest>>

\* lines 311-312: data = get_value(buffer_, byte_index - start, item, bool_index)
CallGetValue ==
    /\ pc = "input"
    /\ data' = get_value(bytearray_, byte_index, item, bool_index)
    /\ pc' = "decoded"
    /\ UNCHANGED <<a, b, item, size, struct_size, bytearray_, byte_index, bool_index, varsRest>>

NextDecode == AddDecodeField \/ CallGetValue

SpecDecode == InitDecode /\ [][NextDecode]_vars
(***************************************************************************)
(* Claims about the field decoder.                                         *)
(***************************************************************************)
BitOf(key) == get_byte_and_bool_index(key)[2]
DictHas(o, name) == \E j \in DOMAIN o : o[j].name = name
DictVal(o, name) == o[CHOOSE j \in DOMAIN o : o[j].name = name].val

\* the item of one element of an array item
ElementItem(it) ==
    IF it["type"].base = "struct"
    THEN [name |-> it["name"], type |-> TypeName("struct"), defintion |-> it["defintion"]]
    ELSE IF it["type"].base = "string"
    THEN [name |-> it["name"], type |-> [base |-> "string", dims |-> <<it["type"].dims[1]>>]]
    ELSE [name |-> it["name"], type |-> TypeName(it["type"].base)]

ArrayStride(it) == ElementSize(it).v + ItemOffset(it)

\* the sequence the claims name: count decodes of one element, in ascending
\* index order, element n at off + n * (size_of(element) + pad)
ExpectedArray(buf, off, it) ==
    Collect([n \in 1..ArrayCount(it) |->
        get_value(buf, off + (n - 1) * ArrayStride(it), ElementItem(it), 0)])

\* the buffer holds every stride of the array at off
ArrayInBounds(buf, off, it) == off + ArrayCount(it) * ArrayStride(it) <= Len(buf)

\* C7: an array decodes to count values in ascending index order, element i
\* decoded at local_offset + i * (size_of(element) + pad), at the top level of
\* a block and for an array field of a struct (local_offset being the struct
\* base plus the field's byte offset).
C7_ArrayStride ==
    pc = "decoded" =>
        /\ (IsArray(item) /\ ElementSize(item).k = "ok"
                /\ ArrayInBounds(bytearray_, byte_index, item)) =>
              data = ExpectedArray(bytearray_, byte_index, item)
        /\ (item["type"] = TypeName("struct") /\ data.k = "dict") =>
              \A i \in DOMAIN item["defintion"] :
                 LET f == item["defintion"][i]
                     off == byte_index + ByteOf(f.key)
                 IN (IsArray(f.item) /\ ArrayInBounds(bytearray_, off, f.item)) =>
                        /\ DictHas(data.v, f.item["name"])
                        /\ DictVal(data.v, f.item["name"]) = ExpectedArray(bytearray_, off, f.item)

\* the field types the decoder supports: scalars of the catalog, String[n],
\* arrays, arrays of bits and structs with a definition
Supported(it) ==
    \/ InTypeSize(it["type"])
    \/ Len(it["type"].dims) = 1 /\ it["type"].base \in {"string", "bool"}
    \/ IsArray(it)
    \/ it["type"] = TypeName("struct") /\ "defintion" \in DOMAIN it

\* C8: a decoded struct has exactly one entry, keyed by field name, for every
\* supported field of its definition, the field's value decoded at
\* struct_base + field.byte; none is missing and none is None.
C8_StructRecordComplete ==
    (pc = "decoded" /\ item["type"] = TypeName("struct") /\ data.k = "dict") =>
        \A i \in DOMAIN item["defintion"] :
            LET f == item["defintion"][i] IN
            Supported(f.item) =>
                /\ Cardinality({j \in DOMAIN data.v : data.v[j].name = f.item["name"]}) = 1
                /\ DictVal(data.v, f.item["name"]) # NoneValue
                /\ DictVal(data.v, f.item["name"]) =
                      get_value(bytearray_, byte_index + ByteOf(f.key), f.item, BitOf(f.key))

\* count booleans, element i being bit (i mod 8) of the byte at off + i div 8
ExpectedBits(buf, off, count) ==
    PyList([n \in 1..count |->
        PyBool((buf[off + ((n - 1) \div 8) + 1] \div (2 ^ ((n - 1) % 8))) % 2 = 1)])

IsBits(it) == Len(it["type"].dims) = 1 /\ it["type"].base = "bool"
BitsCount(it) == get_array_size(it["type"].dims[1])
BitsInBounds(buf, off, it) == off + ((BitsCount(it) + 7) \div 8) <= Len(buf)

\* C9: an array of count bits at local_offset decodes to count booleans,
\* element i being bit (i mod 8) of the byte at local_offset + floor(i / 8);
\* inside a struct local_offset is the struct base plus the field's byte
\* offset.
C9_BitsAtFieldOffset ==
    pc = "decoded" =>
        /\ (IsBits(item) /\ BitsInBounds(bytearray_, byte_index, item)) =>
              data = ExpectedBits(bytearray_, byte_index, BitsCount(item))
        /\ (item["type"] = TypeName("struct") /\ data.k = "dict") =>
              \A i \in DOMAIN item["defintion"] :
                 LET f == item["defintion"][i]
                     off == byte_index + ByteOf(f.key)
                 IN (IsBits(f.item) /\ BitsInBounds(bytearray_, off, f.item)) =>
                        /\ DictHas(data.v, f.item["name"])
                        /\ DictVal(data.v, f.item["name"]) =
                              ExpectedBits(bytearray_, off, BitsCount(f.item))

IsBoundedString(it) == Len(it["type"].dims) = 1 /\ it["type"].base = "string"
DeclaredLength(it) == get_array_size(it["type"].dims[1])

\* C10: a String[max_length] at local_offset, on a buffer that holds the
\* whole field, decodes to the first min(actual_length, max_length) payload
\* bytes, all of them within the field.
C10_StringBoundedByMaxLength ==
    (pc = "decoded" /\ IsBoundedString(item)
        /\ byte_index + 2 + DeclaredLength(item) <= Len(bytearray_)) =>
        LET actual == bytearray_[byte_index + 2] IN
        data = PyStr(SubSeq(bytearray_, byte_index + 3,
                            byte_index + 2 + Min(actual, DeclaredLength(item))))

(***************************************************************************)
(* Flattening: walk (s7_python.py 962-980).  walk is a generator of        *)
(* one-entry dicts {key: value}; its result is modelled as the list of     *)
(* those entries, [key |-> ..., value |-> ...], in the order yielded.      *)
(***************************************************************************)
\* the default of the parameter separator (line 962)
DefaultSeparator == <<"_">>

\* one yielded dict {key: value}
Yield(key, value) == [key |-> key, value |-> value]

RECURSIVE ConcatAll(_)
ConcatAll(seqs) ==
    IF seqs = <<>> THEN <<>> ELSE Head(seqs) \o ConcatAll(Tail(seqs))

\* the recursive calls of lines 968, 972 and 978 pass no separator, so the
\* callee runs with the default one
RECURSIVE walk(_, _, _)
walk(indict_, pre_, separator_) ==
    IF indict_.k = "dict"
    THEN ConcatAll([j \in DOMAIN indict_.v |->
            LET key == indict_.v[j].name
                value == indict_.v[j].val
            IN  IF value.k = "dict"
                THEN walk(value, pre_ \o key, DefaultSeparator)
                ELSE IF value.k = "list"
                THEN ConcatAll([h \in DOMAIN value.v |->
                        walk(value.v[h],
                             pre_ \o separator_ \o key \o separator_ \o StrOfNat(h - 1),
                             DefaultSeparator)])
                ELSE <<Yield(pre_ \o separator_ \o key, value)>>])
    ELSE IF indict_.k = "list"
    THEN ConcatAll([h \in DOMAIN indict_.v |->
            walk(indict_.v[h], pre_ \o separator_ \o StrOfNat(h - 1), DefaultSeparator)])
    ELSE <<Yield(pre_, indict_)>>

(***************************************************************************)
(* Inputs of walk: decoded values nested up to MaxDepth, with lists and    *)
(* dicts of up to MaxWidth entries.                                        *)
(***************************************************************************)
\* deepest nesting of a decoded value handed to walk
MaxDepth == 2
\* largest number of entries of a list or dict handed to walk
MaxWidth == 2

Leaves == {PyInt(1), PyInt(2)}
WalkNames == {<<"A">>, <<"B">>}

\* the dicts over the values T: distinct names, in any insertion order
DictsOver(T) ==
    {PyDict(ps) : ps \in {qs \in SeqUpTo([name : WalkNames, val : T], MaxWidth) :
                            \A i, j \in DOMAIN qs : i # j => qs[i].name # qs[j].name}}

ListsOver(T) == {PyList(es) : es \in SeqUpTo(T, MaxWidth)}

RECURSIVE Values(_)
Values(depth) ==
    IF depth = 0 THEN Leaves
    ELSE LET T == Values(depth - 1) IN Leaves \cup DictsOver(T) \cup ListsOver(T)

\* the prefixes (None and "" are the same to line 963) and the separators
Prefixes == {<<>>, <<"X">>}
Separators == {DefaultSeparator, <<"-">>}

(***************************************************************************)
(* Specification SpecFlatten: plugin_poll line 320, a decoded value is     *)
(* flattened by walk.                                                      *)
(***************************************************************************)
InitFlatten ==
    /\ indict \in Values(MaxDepth)
    /\ pre \in Prefixes
    /\ separator \in Separators
    /\ flat = NotCalled
    /\ pc = "input"
    /\ a = <<>> /\ b = <<>>
    /\ item = NoItem /\ size = NotCalled /\ struct_size = NotCalled
    /\ NoDecode
    /\ NoPlugin

\* list(walk(indict, pre, separator))
CallWalk ==
    /\ pc = "input"
    /\ flat' = walk(indict, pre, separator)
    /\ pc' = "walked"
    /\ UNCHANGED <<a, b, varsField, indict, pre, separator, varsPlugin>>

NextFlatten == CallWalk

SpecFlatten == InitFlatten /\ [][NextFlatten]_vars

(***************************************************************************)
(* Claims about walk.                                                      *)
(***************************************************************************)
\* the flattening the claim describes: one pair per scalar leaf, depth
\* first, the key extended by separator and name or index at every step
RECURSIVE Flatten(_, _, _)
Flatten(value, prefix, sep) ==
    IF value.k = "dict"
    THEN ConcatAll([j \in DOMAIN value.v |->
            Flatten(value.v[j].val, prefix \o sep \o value.v[j].name, sep)])
    ELSE IF value.k = "list"
    THEN ConcatAll([h \in DOMAIN value.v |->
            Flatten(value.v[h], prefix \o sep \o StrOfNat(h - 1), sep)])
    ELSE <<Yield(prefix, value)>>

\* C11: walk yields one (key, value) pair per scalar leaf, depth first, the
\* key being the prefix followed by separator and name (or index) for every
\* step of the path, with the caller's separator at every depth.
C11_FlattenKeys == pc = "walked" => flat = Flatten(indict, pre, separator)

(***************************************************************************)
(* Claims about unsupported types, bit parts and short buffers.            *)
(***************************************************************************)
\* the names the catalog declares but the decoder does not implement
UnsupportedTypes == {TypeName("date"), TypeName("time_of_day")}
\* a name that is in no catalog
UnknownType == TypeName("nosuch")
\* the same item with a type name that is in no catalog
UnknownItem(it) == [it EXCEPT !["type"] = UnknownType]

\* C15: decoding a field of a declared-but-unsupported type (date,
\* time_of_day) ends in an error, decoding one of an unknown type ends in an
\* error, the two errors differ, and inside a struct such a field makes the
\* decode fail too: it is neither skipped nor stored.
C15_UnsupportedDistinctFromUnknown ==
    pc = "decoded" =>
        /\ item["type"] \in UnsupportedTypes =>
              /\ data.k = "raise"
              /\ data # get_value(bytearray_, byte_index, UnknownItem(item), bool_index)
        /\ item["type"] = UnknownType => data.k = "raise"
        /\ item["type"] = TypeName("struct") =>
              ((\E i \in DOMAIN item["defintion"] :
                    item["defintion"][i].item["type"] \in UnsupportedTypes \cup {UnknownType})
                => data.k = "raise")

\* C16: a field whose offset key has a nonzero bit part and whose type is
\* not boolean is rejected: it never decodes to a value, at the top level
\* or inside a struct.
C16_BitPartOnlyForBool ==
    pc = "decoded" =>
        /\ (bool_index # 0 /\ item["type"].base # "bool") => data.k = "raise"
        /\ item["type"] = TypeName("struct") =>
              ((\E i \in DOMAIN item["defintion"] :
                    /\ BitOf(item["defintion"][i].key) # 0
                    /\ item["defintion"][i].item["type"].base # "bool")
                => data.k = "raise")

\* the fields the claim names: scalars, bounded strings, and arrays of them
HasFieldBytes(it) ==
    \/ InTypeSize(it["type"])
    \/ IsBoundedString(it)
    \/ IsArray(it) /\ it["type"].base # "struct"
\* the number of bytes from the field's offset to the end of its last byte:
\* size_of for a scalar or a string, the end of the last element for an array
FieldBytes(it) ==
    IF InTypeSize(it["type"]) THEN type_size[it["type"].base]
    ELSE IF IsBoundedString(it) THEN DeclaredLength(it) + 2
    ELSE (ArrayCount(it) - 1) * ArrayStride(it) + ElementSize(it).v

\* C19: decoding a scalar, a bounded string or an array at an offset where
\* the buffer holds fewer bytes than the field takes ends in an error; no
\* value is built from a shorter byte range.
C19_ShortBufferRaises ==
    (pc = "decoded" /\ HasFieldBytes(item)
        /\ byte_index + FieldBytes(item) > Len(bytearray_)) =>
        data.k = "raise"

(***************************************************************************)
(* Inputs of the integer decoders: the bytes the PLC holds for a value,    *)
(* big-endian, negative values in two's complement.                        *)
(***************************************************************************)
\* largest number of bytes that follow the field in the buffer
MaxTail == 1

\* the integer types decoded by this module (not by snap7.util)
ScalarTypes == {"uint", "udint", "ulint", "lint", "lword"}
\* the bytes a value of the type takes in the PLC
Width(t) == IF t = "lword" THEN 8 ELSE type_size[t]

\* the w bytes of n >= 0, most significant first
RECURSIVE ToBytes(_, _)
ToBytes(n, w) ==
    IF w = 0 THEN <<>> ELSE ToBytes(n \div 256, w - 1) \o <<n % 256>>

\* the w bytes of v in two's complement: those of v for v >= 0, the
\* complement of those of -v - 1 for v < 0
Encode(v, w) ==
    IF v >= 0 THEN ToBytes(v, w)
    ELSE [j \in 1..w |-> 255 - ToBytes(-v - 1, w)[j]]

\* the values whose bytes are decoded
Samples(t) ==
    LET short == {0, 1, 42, 255, 256, 258, 65535}
        wide == short \cup {65536, 16777216, 2147483647}
    IN  IF t = "uint" THEN short
        ELSE IF t = "lint" THEN wide \cup {-1, -2, -256, -65536, -2147483647}
        ELSE wide

(***************************************************************************)
(* Specification SpecScalar: an integer field is drawn with a buffer that  *)
(* holds the bytes of a value at the field's offset, between other bytes;  *)
(* the field is sized (plugin_poll line 292) or decoded (line 311).        *)
(***************************************************************************)
InitScalar ==
    /\ \E t \in ScalarTypes : \E v \in Samples(t) :
         \E p \in SeqUpTo(ByteValues, MaxIndex) : \E q \in SeqUpTo(ByteValues, MaxTail) :
            /\ item = [name |-> "v", type |-> TypeName(t)]
            /\ bytearray_ = p \o Encode(v, Width(t)) \o q
            /\ byte_index = Len(p)
    /\ bool_index = 0
    /\ data = NotCalled
    /\ pc = "input"
    /\ a = <<>> /\ b = <<>> /\ size = NotCalled /\ struct_size = NotCalled
    /\ NoRest

NextScalar == CallGetTypeSize \/ CallGetValue

SpecScalar == InitScalar /\ [][NextScalar]_vars

(***************************************************************************)
(* Claims about the integer decoders.                                      *)
(***************************************************************************)
\* the field's bytes in the buffer
FieldSlice(w) == SubSeq(bytearray_, byte_index + 1, byte_index + w)

\* the unsigned base-256 value of d, first byte most significant
RECURSIVE Positional(_, _)
Positional(d, j) ==
    IF j > Len(d) THEN 0
    ELSE (IF d[j] = 0 THEN 0 ELSE d[j] * 256 ^ (Len(d) - j)) + Positional(d, j + 1)

\* C17: lword is a type of the catalog of size 8: sizing it returns 8, and
\* decoding it on a buffer that holds its 8 bytes returns their unsigned
\* big-endian value.
C17_LwordSizedAndDecoded ==
    /\ (pc = "sized" /\ item["type"] = TypeName("lword")) => size = Ok(8)
    /\ (pc = "decoded" /\ item["type"] = TypeName("lword")
            /\ byte_index + 8 <= Len(bytearray_)) =>
          data = PyInt(Positional(FieldSlice(8), 1))

\* C18: uint, udint, ulint and lint read exactly their 2, 4, 8 and 8 bytes at
\* the offset, first byte most significant: uint is b0 * 256 + b1 (so
\* [0x00, 0x2A] is 42), udint and ulint the unsigned base-256 value, lint the
\* two's complement value; decoding the big-endian bytes of a value returns
\* the value.
C18_BigEndianIntegers ==
    (pc = "decoded" /\ item["type"].base \in {"uint", "udint", "ulint", "lint"}) =>
        LET t == item["type"].base
            d == FieldSlice(type_size[t])
        IN  /\ data.k = "int"
            /\ t = "uint" => data.v = d[1] * 256 + d[2]
            /\ (t = "uint" /\ d = <<0, 42>>) => data.v = 42
            /\ t \in {"uint", "udint", "ulint"} => data.v = Positional(d, 1)
            /\ t = "lint" => (data.v < 0) = (d[1] >= 128)
            /\ \A v \in Samples(t) : d = Encode(v, type_size[t]) => data.v = v
            /\ Encode(data.v, type_size[t]) = d

C18_Witness ==
    /\ pc = "decoded"
    /\ item["type"] = TypeName("lint")
    /\ bytearray_ = <<1, 255, 255, 255, 255, 255, 255, 255, 254, 2>>
    /\ byte_index = 1
    /\ data = PyInt(-2)

(***************************************************************************)
(* Plugin entry points (s7_python.py 202-415): plugin_info, plugin_init,   *)
(* plugin_poll, plugin_reconfigure, plugin_shutdown, and the module global *)
(* client.                                                                 *)
(*                                                                         *)
(* The device is the environment of a call: env says whether connect       *)
(* succeeds, which read_area call (if any) raises, whether disconnect      *)
(* raises, and which bytes the PLC holds.  trace lists, in order, the      *)
(* calls made during the entry point call.                                 *)
(***************************************************************************)
\* largest index of the read_area call that raises during a poll
MaxFail == 3

\* no exception so far
NoError == [k |-> "noerror"]

\* snap7.client.Client() connected with client.connect(host, rack, slot, port)
\* (lines 263-265); connected is the object's get_connected()
S7Client(host, rack, slot, port) ==
    [k |-> "client", host |-> host, rack |-> rack, slot |-> slot, port |-> port,
     connected |-> TRUE]

\* the events of trace
ConnectEvent(ok) == [e |-> "connect", ok |-> ok]
DisconnectEvent(ok) == [e |-> "disconnect", ok |-> ok]
SizeEvent(dbnumber, index) == [e |-> "size", db |-> dbnumber, index |-> index]
ReadEvent(dbnumber, start, size_, ok) ==
    [e |-> "read", db |-> dbnumber, start |-> start, size |-> size_, ok |-> ok]
DecodeEvent(dbnumber, index, start, buf, out) ==
    [e |-> "decode", db |-> dbnumber, index |-> index, start |-> start, buf |-> buf,
     data |-> out]

\* plugin_info (205-221); 'config' is the module's _DEFAULT_CONFIG, of which
\* the defaults of the entries are kept
_DEFAULT_CONFIG ==
    [plugin |-> "s7_python", assetName |-> "S7", host |-> "127.0.0.1", rack |-> "0",
     slot |-> "0", port |-> "102", map |-> "DB 788, 789, 11", saveAs |-> "flat"]

plugin_info ==
    [name |-> "s7_south_python", version |-> "1.9.1", mode |-> "poll", type |-> "south",
     interface |-> "1.0", config |-> _DEFAULT_CONFIG]

\* plugin_init (224-233): a deep copy, equal to config
plugin_init(config) == config

\* int(handle[...]['value']) of lines 254-256
ParseInt(s) ==
    IF s # <<>> /\ \A i \in DOMAIN s : s[i] \in {"0", "1", "2", "3", "4", "5", "6", "7", "8", "9"}
    THEN Ok(IntOfStr(s))
    ELSE Raise("ValueError", 254)

\* client.read_area(Areas.DB, dbnumber, start, size) when it succeeds: size
\* bytes of the PLC's data block
ReadArea(env, dbnumber, start, size_) ==
    [j \in 1..size_ |-> (env.seed + dbnumber + start + j - 1) % 3]

\* the key of a field in the readings (lines 319, 333, 336)
ReadingKey(dbnumber, it) == <<"D", "B">> \o dbnumber \o <<"_">> \o it["name"]

\* escape_json(json.dumps(data)) (line 333); the text itself is not modelled
EscapedJson(out) == [k |-> "escaped", v |-> out]

\* readings.update(element) for every element of a list of one-entry dicts
RECURSIVE UpdateAll(_, _)
UpdateAll(readings, elements) ==
    IF elements = <<>> THEN readings
    ELSE UpdateAll(DictSet(readings, Head(elements).key, Head(elements).value),
                   Tail(elements))

\* lines 318-336: the decoded value is stored as handle["saveAs"] says
Store(readings, saveAs, dbnumber, it, out) ==
    IF saveAs = "flat"
    THEN UpdateAll(readings, walk(out, ReadingKey(dbnumber, it), DefaultSeparator))
    ELSE IF saveAs = "escaped"
    THEN DictSet(readings, ReadingKey(dbnumber, it), EscapedJson(out))
    ELSE DictSet(readings, ReadingKey(dbnumber, it), out)

\* lines 314-336 for the outcome out of get_value: an exception ends the
\* loop (it is raised again at line 341), None leaves the field out
Decoded(acc, saveAs, dbnumber, index, it, start, buf, out) ==
    LET traced == [acc EXCEPT !.trace =
                      Append(@, DecodeEvent(dbnumber, index, start, buf, out))]
    IN  IF out.k = "raise" THEN [traced EXCEPT !.err = out]
        ELSE IF out = NoneValue THEN traced
        ELSE [traced EXCEPT !.readings = Store(@, saveAs, dbnumber, it, out)]

\* lines 305-312: a field is decoded from the span's buffer when its start
\* byte lies in the span
ItemStep(buf, start, end, index, it, saveAs, dbnumber, acc, bi) ==
    IF start <= bi[1] /\ bi[1] <= end
    THEN Decoded(acc, saveAs, dbnumber, index, it, start, buf,
                 get_value(buf, bi[1] - start, it, bi[2]))
    ELSE acc

\* the loop of line 304
RECURSIVE ItemLoop(_, _, _, _, _, _, _)
ItemLoop(buf, start, end, rest, saveAs, dbnumber, acc) ==
    IF rest = <<>> \/ acc.err # NoError THEN acc
    ELSE ItemLoop(buf, start, end, Tail(rest), saveAs, dbnumber,
                  ItemStep(buf, start, end, Head(rest).key, Head(rest).item, saveAs,
                           dbnumber, acc, get_byte_and_bool_index(Head(rest).key)))

\* a variant of the handler of lines 338-341 that logs and goes on
OnReadErrorSkip(acc, ex) == acc

\* lines 338-341: the exception of read_area is logged and raised again
OnReadError(acc, ex) == [acc EXCEPT !.err = ex]

\* lines 297-341 for one span: read_area, then the span's fields
SpanStep(start, end, variable, saveAs, dbnumber, env, acc, failed) ==
    IF failed
    THEN OnReadError([acc EXCEPT !.reads = @ + 1,
                                 !.trace = Append(@, ReadEvent(dbnumber, start,
                                                               end - start + 1, FALSE))],
                     Raise("Snap7Exception", 301))
    ELSE ItemLoop(ReadArea(env, IntOfStr(dbnumber), start, end - start + 1), start, end,
                  variable, saveAs, dbnumber,
                  [acc EXCEPT !.reads = @ + 1,
                              !.trace = Append(@, ReadEvent(dbnumber, start,
                                                            end - start + 1, TRUE))])

\* the loop of line 296: an exception ends it
RECURSIVE SpanLoop(_, _, _, _, _, _)
SpanLoop(spans, variable, saveAs, dbnumber, env, acc) ==
    IF spans = <<>> \/ acc.err # NoError THEN acc
    ELSE SpanLoop(Tail(spans), variable, saveAs, dbnumber, env,
                  SpanStep(Head(spans)[1], Head(spans)[2], variable, saveAs, dbnumber, env,
                           acc, env.fail = acc.reads + 1))

\* line 290-292 for the outcome sz of get_type_size(item)
Sized(sized, dbnumber, index, byte_index_, sz) ==
    LET traced == [sized EXCEPT !.trace = Append(@, SizeEvent(dbnumber, index))] IN
    IF sz.k = "raise" THEN [traced EXCEPT !.err = sz]
    ELSE [traced EXCEPT !.a = Append(@, <<byte_index_, byte_index_ + sz.v - 1>>)]

\* lines 288-292: the interval of every field of the block is appended to a;
\* an exception of get_type_size ends the loop
RECURSIVE SizeLoop(_, _, _)
SizeLoop(rest, dbnumber, sized) ==
    IF rest = <<>> \/ sized.err # NoError THEN sized
    ELSE SizeLoop(Tail(rest), dbnumber,
                  Sized(sized, dbnumber, Head(rest).key,
                        IntOfStr(SplitDot(Head(rest).key)[1]),
                        get_type_size(Head(rest).item)))

\* a variant that reads the intervals gathered before get_type_size raised
IntervalsToReadPartial(sized) == sized.a

\* the list a that reaches line 296: none when get_type_size raised in the
\* loop of lines 289-292
IntervalsToRead(sized) == IF sized.err # NoError THEN <<>> ELSE sized.a

\* lines 294-341 for one dbnumber, the fields sized
PollSized(block, saveAs, env, acc, sized, read) ==
    IF sized.err # NoError /\ read.err = NoError
    THEN [read EXCEPT !.err = sized.err]
    ELSE read

PollSpans(block, saveAs, env, acc, sized) ==
    PollSized(block, saveAs, env, acc, sized,
              SpanLoop(union_range(IntervalsToRead(sized)), block.variable, saveAs,
                       block.dbnumber, env, [acc EXCEPT !.trace = sized.trace]))

\* lines 286-341 for one dbnumber
PollBlock(block, saveAs, env, acc) ==
    IF acc.err # NoError \/ block.variable = <<>> THEN acc
    ELSE PollSpans(block, saveAs, env, acc,
                   SizeLoop(block.variable, block.dbnumber,
                            [a |-> <<>>, trace |-> acc.trace, err |-> NoError]))

RECURSIVE PollBlocks(_, _, _, _)
PollBlocks(blocks, saveAs, env, acc) ==
    IF blocks = <<>> THEN acc
    ELSE PollBlocks(Tail(blocks), saveAs, env, PollBlock(Head(blocks), saveAs, env, acc))

\* the 'value' of the map entry: the text of a JSON document with the blocks
\* db under "DB", or a text json.loads rejects
Json(db) == [k |-> "json", DB |-> db]
InvalidJson == [k |-> "invalid json"]

\* the reading of lines 345-349 (the timestamp is left out)
Reading(asset, readings) == [k |-> "reading", asset |-> asset, readings |-> readings]

\* lines 278-349, with a connected client
PollBody(handle_, env, events) ==
    IF handle_.map = InvalidJson
    THEN [readings |-> <<>>, trace |-> events, reads |-> 0,
          err |-> Raise("JSONDecodeError", 279)]
    ELSE PollBlocks(handle_.map.DB, handle_.saveAs, env,
                    [readings |-> <<>>, trace |-> events, reads |-> 0, err |-> NoError])

\* lines 351-356: client.disconnect(), client = None, raise ex; with no
\* client, or when disconnect raises, that exception propagates instead and
\* client stays as it is
PollExcept(client_, ex, env, events) ==
    IF client_ = NoneValue
    THEN [client |-> client_, result |-> Raise("AttributeError", 354), trace |-> events]
    ELSE IF env.disconnect = "raise"
    THEN [client |-> client_, result |-> Raise("Snap7Exception", 354),
          trace |-> Append(events, DisconnectEvent(FALSE))]
    ELSE [client |-> NoneValue, result |-> ex, trace |-> Append(events, DisconnectEvent(TRUE))]

\* lines 343-358 for the outcome body of lines 278-341
PollEnd(client_, handle_, env, body) ==
    IF body.err # NoError
    THEN PollExcept(client_, body.err, env, body.trace)
    ELSE [client |-> client_, result |-> Reading(handle_.assetName, body.readings),
          trace |-> body.trace]

\* lines 278-358, with a connected client
PollConnected(client_, handle_, env, events) ==
    PollEnd(client_, handle_, env, PollBody(handle_, env, events))

\* lines 251-276 have run: the client, new or old
Connected(client_, handle_) ==
    IF client_ = NoneValue
    THEN S7Client(handle_.host, ParseInt(handle_.rack).v, ParseInt(handle_.slot).v,
                  ParseInt(handle_.port).v)
    ELSE client_

\* a variant without the check of lines 265-276: the poll goes on with the
\* client it has made, connected or not
plugin_pollUnchecked(client_, handle_, env) ==
    IF client_ = NoneValue
        /\ \E s \in {handle_.port, handle_.rack, handle_.slot} : ParseInt(s).k = "raise"
    THEN PollExcept(client_, Raise("ValueError", 260), env, <<>>)
    ELSE PollConnected([Connected(client_, handle_) EXCEPT
                           !.connected = client_ # NoneValue \/ env.connect = "ok"],
                       handle_, env,
                       IF client_ = NoneValue THEN <<ConnectEvent(env.connect = "ok")>>
                       ELSE <<>>)

\* plugin_poll (236-358)
plugin_poll(client_, handle_, env) ==
    IF client_ = NoneValue
        /\ \E s \in {handle_.port, handle_.rack, handle_.slot} : ParseInt(s).k = "raise"
    THEN PollExcept(client_, Raise("ValueError", 260), env, <<>>)
    ELSE IF client_ = NoneValue /\ env.connect # "ok"
    THEN [client |-> NoneValue, result |-> NoneValue, trace |-> <<ConnectEvent(FALSE)>>]
    ELSE PollConnected(Connected(client_, handle_), handle_, env,
                       IF client_ = NoneValue THEN <<ConnectEvent(TRUE)>> ELSE <<>>)

\* a variant that resets the client whether disconnect raises or not
plugin_shutdownReset(client_, disconnect) ==
    [client |-> NoneValue,
     result |-> IF client_ # NoneValue /\ disconnect = "raise"
                THEN Raise("Snap7Exception", 406) ELSE NoneValue,
     trace |-> IF client_ # NoneValue THEN <<DisconnectEvent(disconnect = "ok")>> ELSE <<>>]

\* plugin_shutdown (392-415); disconnect says whether client.disconnect() raises
plugin_shutdown(client_, disconnect) ==
    IF client_ # NoneValue /\ disconnect = "raise"
    THEN [client |-> client_, result |-> Raise("Snap7Exception", 406),
          trace |-> <<DisconnectEvent(FALSE)>>]
    ELSE [client |-> NoneValue, result |-> NoneValue,
          trace |-> IF client_ # NoneValue THEN <<DisconnectEvent(TRUE)>> ELSE <<>>]

\* utils.get_diff(handle, new_config): the keys whose values differ
get_diff(old, new) == {key \in DOMAIN new : key \notin DOMAIN old \/ old[key] # new[key]}

\* lines 382-383 for the outcome down of plugin_shutdown(handle)
Restarted(handle_, new_config, down) ==
    IF down.result.k = "raise"
    THEN [client |-> down.client, handle |-> handle_, result |-> down.result,
          trace |-> down.trace]
    ELSE [client |-> down.client, handle |-> plugin_init(new_config),
          result |-> plugin_init(new_config), trace |-> down.trace]

\* plugin_reconfigure (361-389); handle is what the caller holds afterwards:
\* the new handle, or the old one when the call raised
plugin_reconfigure(client_, handle_, new_config, disconnect) ==
    IF get_diff(handle_, new_config) \cap {"host", "rack", "slot", "port"} # {}
    THEN Restarted(handle_, new_config, plugin_shutdown(client_, disconnect))
    ELSE [client |-> client_, handle |-> new_config, result |-> new_config, trace |-> <<>>]

(***************************************************************************)
(* Inputs of the entry points: configurations and device behaviours.       *)
(***************************************************************************)
\* one (key, item) pair of a block
Field(byte, bit, shape) ==
    [key |-> OffsetKey(byte, bit),
     item |-> WithName(shape, <<"f">> \o StrOfNat(byte) \o StrOfNat(bit))]

\* a struct whose field at byte MaxStructByte lies past the size the catalog
\* gives it
ShortStruct ==
    [type |-> TypeName("struct"),
     defintion |-> <<Field(0, 0, [type |-> TypeName("byte")]),
                     Field(2, 0, [type |-> TypeName("byte")]),
                     Field(MaxStructByte, 0, [type |-> TypeName("byte")])>>]

\* the blocks (the dicts under a dbnumber) of the maps
Blocks ==
    {<<>>,
     <<Field(0, 0, [type |-> TypeName("byte")]), Field(1, 0, [type |-> TypeName("uint")])>>,
     <<Field(4, 0, [type |-> TypeName("uint")]), Field(0, 0, [type |-> TypeName("byte")])>>,
     <<Field(0, 0, [type |-> TypeName("bool")]), Field(0, 1, [type |-> TypeName("bool")]),
       Field(3, 0, [type |-> ArrayName("uint", MaxCount)])>>,
     <<Field(0, 0, [type |-> TypeName("byte")]), Field(2, 0, [type |-> TypeName("nosuch")]),
       Field(4, 0, [type |-> TypeName("byte")])>>,
     <<Field(0, 0, ShortStruct), Field(4, 0, [type |-> TypeName("byte")])>>,
     <<Field(0, 0, [type |-> ArrayName("string", 1)])>>}

\* the maps: up to two data blocks, or a text that is not JSON
Maps ==
    {Json(<<>>)}
    \cup {Json(<<[dbnumber |-> <<"1">>, variable |-> v]>>) : v \in Blocks}
    \cup {Json(<<[dbnumber |-> <<"1">>, variable |-> v],
                 [dbnumber |-> <<"2">>, variable |-> w]>>) : v \in Blocks, w \in Blocks}
    \cup {InvalidJson}

\* the configurations (the 'value' of every entry)
Configs ==
    [assetName : {"S7"}, host : {"127.0.0.1", "10.0.0.2"}, rack : {<<"0">>}, slot : {<<"0">>},
     port : {<<"1", "0", "2">>, <<"x">>}, map : Maps, saveAs : {"flat", "escaped", "object"}]

\* the configurations that differ from h in one entry
OneEdit(h) == {c \in Configs : Cardinality(get_diff(h, c)) = 1}

\* the outcomes of client.disconnect()
Disconnects == {"ok", "raise"}

\* the behaviours of the device during one poll
Envs ==
    [connect : {"ok", "refused", "down"}, fail : 0..MaxFail, disconnect : Disconnects,
     seed : {0, 1}]

(***************************************************************************)
(* Specification SpecPlugin: the south service initialises the plugin and  *)
(* then calls its entry points in any order.                               *)
(***************************************************************************)
NoField ==
    /\ a = <<>> /\ b = <<>>
    /\ item = NoItem /\ size = NotCalled /\ struct_size = NotCalled
    /\ NoDecode /\ NoWalk

InitPlugin ==
    /\ client = NoneValue
    /\ \E config \in Configs : handle = plugin_init(config)
    /\ result = NotCalled
    /\ trace = <<>>
    /\ pc = "init"
    /\ NoField

\* the global client, and what the caller sees of the call
Called(r) ==
    /\ client' = r.client
    /\ result' = r.result
    /\ trace' = r.trace

CallPluginInfo ==
    /\ result' = plugin_info
    /\ trace' = <<>>
    /\ pc' = "info"
    /\ UNCHANGED <<a, b, varsField, varsWalk, client, handle>>

CallPluginPoll ==
    /\ \E env \in Envs : Called(plugin_poll(client, handle, env))
    /\ pc' = "polled"
    /\ UNCHANGED <<a, b, varsField, varsWalk, handle>>

Reconfigured(r) == Called(r) /\ handle' = r.handle

CallPluginReconfigure ==
    /\ \E new_config \in OneEdit(handle) : \E disconnect \in Disconnects :
         Reconfigured(plugin_reconfigure(client, handle, new_config, disconnect))
    /\ pc' = "reconfigured"
    /\ UNCHANGED <<a, b, varsField, varsWalk>>

CallPluginShutdown ==
    /\ \E disconnect \in Disconnects : Called(plugin_shutdown(client, disconnect))
    /\ pc' = "shutdown"
    /\ UNCHANGED <<a, b, varsField, varsWalk, handle>>

NextPlugin ==
    CallPluginInfo \/ CallPluginPoll \/ CallPluginReconfigure \/ CallPluginShutdown

SpecPlugin == InitPlugin /\ [][NextPlugin]_vars

(***************************************************************************)
(* Claims about plugin_poll and plugin_info.                               *)
(***************************************************************************)
\* the positions of trace that hold an event of kind e for data block db
EventsOf(e, db) == {i \in DOMAIN trace : trace[i].e = e /\ trace[i].db = db}
\* the positions of trace that hold a read_area call
ReadEvents == {i \in DOMAIN trace : trace[i].e = "read"}
\* the blocks of the handle's map
BlocksOf(h) == IF h.map = InvalidJson THEN <<>> ELSE h.map.DB
\* every field of every block of the map has a size
AllSized(h) ==
    \A n \in DOMAIN BlocksOf(h) : \A f \in DOMAIN BlocksOf(h)[n].variable :
        get_type_size(BlocksOf(h)[n].variable[f].item).k = "ok"

\* C12: a field whose decode fails (None or an exception) is left out of
\* the readings and nothing else changes: the poll still returns a reading,
\* every field of every block is decoded, and every field that decodes to a
\* value is in the reading.
C12_DecodeFailureScoped ==
    (pc = "polled" /\ AllSized(handle)
        /\ \E i \in DOMAIN trace :
              trace[i].e = "decode" /\ trace[i].data.k \in {"raise", "none"}) =>
        /\ result.k = "reading"
        /\ \A n \in DOMAIN BlocksOf(handle) :
              \A f \in DOMAIN BlocksOf(handle)[n].variable :
                 LET db == BlocksOf(handle)[n].dbnumber
                     fld == BlocksOf(handle)[n].variable[f]
                     decodes == {i \in EventsOf("decode", db) : trace[i].index = fld.key}
                 IN  /\ Cardinality(decodes) = 1
                     /\ \A i \in decodes :
                           (handle.saveAs = "object") =>
                              IF trace[i].data.k \in {"raise", "none"}
                              THEN ~DictHas(result.readings, ReadingKey(db, fld.item))
                              ELSE /\ DictHas(result.readings, ReadingKey(db, fld.item))
                                   /\ DictVal(result.readings, ReadingKey(db, fld.item))
                                        = trace[i].data

\* the interval [byte, byte + size - 1] of every field of a block
BlockIntervals(blk) ==
    [f \in DOMAIN blk.variable |->
        LET byte == ByteOf(blk.variable[f].key) IN
        <<byte, byte + get_type_size(blk.variable[f].item).v - 1>>]

\* C13: within a poll every field of a block is sized before the block's
\* first read_area, the reads of the block are coalesced spans of all its
\* fields, and a block with a field that cannot be sized is not read at all.
C13_SizedBeforeRead ==
    pc = "polled" =>
        \A n \in DOMAIN BlocksOf(handle) :
            LET blk == BlocksOf(handle)[n]
                sizes == EventsOf("size", blk.dbnumber)
                reads == EventsOf("read", blk.dbnumber)
                unsized == \E f \in DOMAIN blk.variable :
                              get_type_size(blk.variable[f].item).k = "raise"
            IN  /\ \A i \in sizes : \A j \in reads : i < j
                /\ reads # {} => Cardinality(sizes) = Len(blk.variable)
                /\ unsized => reads = {}
                /\ \A j \in reads :
                      \E sp \in DOMAIN union_range(BlockIntervals(blk)) :
                          union_range(BlockIntervals(blk))[sp] =
                             <<trace[j].start, trace[j].start + trace[j].size - 1>>

C13_Witness ==
    /\ pc = "polled"
    /\ handle.map # InvalidJson
    /\ Len(handle.map.DB) = 2
    /\ EventsOf("read", <<"1">>) # {}
    /\ EventsOf("size", <<"2">>) # {}
    /\ EventsOf("read", <<"2">>) = {}
    /\ result = Raise("ValueError", 883)

C20_PluginInfoRecord ==
    pc = "info" =>
        result = [name |-> "s7_south_python", version |-> "2.1.1", mode |-> "poll",
                  type |-> "south", interface |-> "1.0", config |-> _DEFAULT_CONFIG]

(***************************************************************************)
(* Claims about the spans of a poll and the life of the client.            *)
(***************************************************************************)
\* the bytes of the data block that follow a span
FurtherBytes == [1..MaxStrLen -> {0, 1}]

ParseFails(h) == \E s \in {h.port, h.rack, h.slot} : ParseInt(s).k = "raise"
\* the calls of sizing, reading and decoding made by the poll, in order
Steps(t) == SelectSeq(t, LAMBDA ev : ev.e \in {"size", "read", "decode"})
\* the item of the field that a size event is about
SizedItem(h, ev) ==
    LET blk == BlocksOf(h)[CHOOSE n \in DOMAIN BlocksOf(h) :
                              BlocksOf(h)[n].dbnumber = ev.db]
    IN  blk.variable[CHOOSE f \in DOMAIN blk.variable : blk.variable[f].key = ev.index].item
\* the error of the step in which a poll that raised has failed
Cause(h, t) ==
    IF ParseFails(h) THEN Raise("ValueError", 260)
    ELSE IF h.map = InvalidJson THEN Raise("JSONDecodeError", 279)
    ELSE LET ev == Steps(t)[Len(Steps(t))] IN
         IF ev.e = "read" THEN Raise("Snap7Exception", 301)
         ELSE IF ev.e = "decode" THEN ev.data
         ELSE get_type_size(SizedItem(h, ev))

\* C22: when plugin_poll ends by raising, whichever step has failed
\* (parsing the connection parameters, parsing the map, sizing, a device
\* read, a decode), the error that reaches the caller is the error of that
\* step and the global client is None afterwards.
C22_ErrorAndClientReset ==
    (pc = "polled" /\ result.k = "raise") =>
        /\ result = Cause(handle, trace)
        /\ client = NoneValue

\* the positions of trace that hold a disconnect that has returned
Disconnections == {i \in DOMAIN trace : trace[i] = DisconnectEvent(TRUE)}
\* the map has a field to read
HasFields(h) == \E n \in DOMAIN BlocksOf(h) : BlocksOf(h)[n].variable # <<>>

\* C23: a poll that finds no client and fails to connect (connect raises or
\* the client reports not connected) returns None without raising, issues
\* no device read and leaves the global client None; and whatever the
\* sequence of calls, a read is issued only through a client whose connect
\* has succeeded (the one kept from an earlier call, or the one this poll
\* has just connected) and which has not been disconnected: a client whose
\* disconnect has returned is never kept, and no read follows a disconnect.
C23_ReadsOnlyWhenConnected ==
    [][/\ (pc' = "polled" /\ client = NoneValue /\ trace' # <<>>
            /\ trace'[1] = ConnectEvent(FALSE)) =>
               /\ result' = NoneValue
               /\ ReadEvents' = {}
               /\ client' = NoneValue
       /\ (pc' = "polled" /\ ReadEvents' # {}) =>
               /\ IF client = NoneValue THEN trace'[1] = ConnectEvent(TRUE)
                  ELSE client.connected /\ \A i \in DOMAIN trace' : trace'[i].e # "connect"
               /\ \A i \in ReadEvents' : \A j \in Disconnections' : i < j
       /\ (pc' # "polled") => ReadEvents' = {}
       /\ Disconnections' # {} => client' = NoneValue
       /\ client' # NoneValue => client'.connected]_vars

C23_Witness ==
    /\ pc = "polled"
    /\ trace = <<ConnectEvent(FALSE)>>
    /\ result = NoneValue
    /\ client = NoneValue
    /\ AllSized(handle) /\ HasFields(handle)

\* C25: plugin_shutdown calls client.disconnect() exactly when a client
\* exists; when disconnect returns the global client is None afterwards and
\* nothing is raised; with no client the call does nothing and the client
\* stays None (so a second shutdown changes nothing); when disconnect raises,
\* its error reaches the caller and the client is left as it was.
C25_ShutdownDisconnects ==
    [][pc' = "shutdown" =>
          IF client = NoneValue
          THEN trace' = <<>> /\ result' = NoneValue /\ client' = NoneValue
          ELSE /\ Len(trace') = 1
               /\ trace'[1].e = "disconnect"
               /\ IF trace'[1].ok
                  THEN result' = NoneValue /\ client' = NoneValue
                  ELSE result' = Raise("Snap7Exception", 406) /\ client' = client]_vars

C25_Witness ==
    /\ pc = "shutdown"
    /\ trace = <<DisconnectEvent(FALSE)>>
    /\ result = Raise("Snap7Exception", 406)
    /\ client # NoneValue

\* the entries of the configuration that make the connection
ConnectionKeys == {"host", "rack", "slot", "port"}
\* the client is connected with the parameters of the configuration h
ConnectedAs(c, h) ==
    /\ ~ParseFails(h)
    /\ c.host = h.host
    /\ c.rack = ParseInt(h.rack).v /\ c.slot = ParseInt(h.slot).v
    /\ c.port = ParseInt(h.port).v

\* C24: plugin_reconfigure returns, in every case, a handle equal to
\* new_config (values have no identity in the model, so of the deep copy only
\* the equality is stated); when host, rack, slot or port differ between the
\* old handle and new_config the existing client is disconnected and the
\* global client is None afterwards; when none of them differs the client is
\* left as it was; and a client that is kept is always one connected with the
\* parameters of the handle in use, so no read goes over a connection made
\* with the old parameters.
C24_ReconfigureRestarts ==
    [][/\ pc' = "reconfigured" =>
            /\ handle' \in OneEdit(handle)
            /\ result' = handle'
            /\ IF get_diff(handle, handle') \cap ConnectionKeys # {}
               THEN /\ client' = NoneValue
                    /\ trace' = IF client = NoneValue THEN <<>>
                                ELSE <<DisconnectEvent(TRUE)>>
               ELSE client' = client /\ trace' = <<>>
       /\ client' # NoneValue => ConnectedAs(client', handle')]_vars
====
